---------------------------- MODULE Spec2Model ----------------------------
(***************************************************************************)
(* Model of the data-synchronisation logic of HotelBookingApp              *)
(* (src/src/App.js): the React state of the component, the closures its    *)
(* effects and handlers capture, the asynchronous continuations in flight  *)
(* and the remote bookings table they read and write.                      *)
(*                                                                         *)
(* A request reaches the remote store when it is dispatched; its response  *)
(* is delivered to the component at any later time, in any order.          *)
(* The `view` tab and `lastRefresh` clock are presentation only and are    *)
(* not modelled: switching tabs is always possible in the main view and    *)
(* changes nothing else.                                                   *)
(***************************************************************************)
EXTENDS Integers, Sequences, FiniteSets, TLC

\* ------------------------------------------------------------------ bounds
\* A user or environment event starts a new asynchronous operation only
\* while fewer than MaxTasks continuations and timers are in flight; the
\* continuations themselves are never held back.
MaxTasks == 1
\* Most booking rows the remote table ever allocates an id for.
MaxBookingId == 2

\* ---------------------------------------------------------- remote fixture
\* useState(new Date().toISOString().split('T')[0]): the date of the mount.
InitialDate == 1
Dates == {1, 2}

\* supabase.from('properties').select('*').order('id')
RemoteProperties == << [id |-> 1], [id |-> 2] >>

\* The rooms table in (category, name) order; property 2 has no room.
RemoteRooms ==
  << [id |-> 10, property_id |-> 1],
     [id |-> 11, property_id |-> 1] >>

AllRoomIds == {RemoteRooms[i].id : i \in DOMAIN RemoteRooms}

VARIABLES
  properties,       \* useState([])            line 6
  selectedProperty, \* useState(0), an index   line 7
  selectedDate,     \* line 8
  rooms,            \* line 9
  bookings,         \* line 10
  loading,          \* line 12
  error,            \* line 13 (TRUE: a message is set)
  isOnline,         \* line 14
  autoRefresh,      \* line 16
  notice,           \* the text of the last alert() raised
  handlerSelProp,   \* selectedProperty captured by the loadData that the
                    \* visibilitychange and focus handlers close over
  tasks,            \* continuations and timers in flight, in dispatch order
  dbBookings,       \* the remote bookings table
  dbNextId,         \* the next id the remote table assigns
  trip              \* observer of one toggle round trip (see TripNext)

vars == << properties, selectedProperty, selectedDate, rooms, bookings,
           loading, error, isOnline, autoRefresh, notice, handlerSelProp,
           tasks, dbBookings, dbNextId, trip >>

local == << properties, selectedProperty, selectedDate, rooms, bookings,
            loading, error, isOnline, autoRefresh, notice, handlerSelProp >>

\* ----------------------------------------------------------------- helpers
RECURSIVE SortedById(_)
SortedById(S) ==
  IF S = {} THEN << >>
  ELSE LET m == CHOOSE b \in S : \A c \in S : b.id <= c.id
       IN << m >> \o SortedById(S \ {m})

RoomIdsOf(rs) == {rs[i].id : i \in DOMAIN rs}

RemoveAt(s, i) == SubSeq(s, 1, i - 1) \o SubSeq(s, i + 1, Len(s))

\* .from('rooms').select('*').eq('property_id', propertyId)
SelectRooms(propertyId) ==
  SelectSeq(RemoteRooms, LAMBDA r : r.property_id = propertyId)

\* .from('bookings').select('*').in('room_id', roomIds).eq('booking_date', d)
SelectBookings(roomIds, d) ==
  SortedById({b \in dbBookings : b.room_id \in roomIds /\ b.booking_date = d})

Task(kind, phase) ==
  [kind |-> kind, phase |-> phase, sel |-> 0, prop |-> 0, data |-> << >>,
   ok |-> TRUE, bid |-> 0, room |-> 0, date |-> 0, rms |-> << >>]

\* ------------------------------------------------------------- pure queries
RECURSIVE Some(_, _)
\* bookings.some(booking => booking.room_id === roomId)
Some(bs, roomId) ==
  IF bs = << >> THEN FALSE
  ELSE IF Head(bs).room_id = roomId THEN TRUE
  ELSE Some(Tail(bs), roomId)

isRoomBookedOnDate(roomId) ==
  Some(SelectSeq(bookings, LAMBDA b : b.booking_date = selectedDate), roomId)
isRoomBooked(roomId) == Some(bookings, roomId)

getAvailableRoomsByLength == Len(rooms) - Len(bookings)
getAvailableRooms ==
  Len(SelectSeq(rooms, LAMBDA room : ~isRoomBooked(room.id)))

getTotalRooms == Len(rooms)

\* bookings.find(b => b.room_id === roomId): the first match, or none (id 0)
RECURSIVE Find(_, _)
Find(bs, roomId) ==
  IF bs = << >> THEN [id |-> 0, room_id |-> 0, booking_date |-> 0, is_booked |-> FALSE]
  ELSE IF Head(bs).room_id = roomId THEN Head(bs)
  ELSE Find(Tail(bs), roomId)

\* The booking list holds an entry for the room.
HasEntry(roomId) == \E j \in DOMAIN bookings : bookings[j].room_id = roomId

\* ------------------------------------------------------------- what renders
LoadingScreen == loading /\ Len(properties) = 0
ErrorScreen == ~LoadingScreen /\ error /\ Len(properties) = 0
MainView == ~LoadingScreen /\ ~ErrorScreen

\* ------------------------------------------------------- dispatching a call
\* loadData(): the properties request in flight, with the selectedProperty
\* its closure captured.
LoadDataTask(sel) == [Task("loadData", "properties") EXCEPT !.sel = sel]

\* loadRooms(propertyId): the rooms request in flight.
RoomsFetch(kind, propertyId) == [Task(kind, "rooms") EXCEPT !.prop = propertyId]

\* loadBookings(roomsData) with selectedDate = d in its closure: nothing for
\* an empty room list, otherwise the bookings request in flight.
BookingsFetchOfNoRoomsToo(kind, roomsData, d) ==
  << [Task(kind, "bookings") EXCEPT
        !.data = SelectBookings(RoomIdsOf(roomsData), d),
        !.date = d, !.rms = roomsData] >>
BookingsFetch(kind, roomsData, d) ==
  IF Len(roomsData) = 0 THEN << >>
  ELSE << [Task(kind, "bookings") EXCEPT
            !.data = SelectBookings(RoomIdsOf(roomsData), d),
            !.date = d, !.rms = roomsData] >>

\* useEffect(..., [selectedProperty, properties, loadRooms])
EffectLoadRooms(props, sel) ==
  IF Len(props) > 0 /\ sel + 1 \in DOMAIN props
  THEN << RoomsFetch("loadRooms", props[sel + 1].id) >>
  ELSE << >>

\* useEffect(..., [selectedDate, loadBookings]): runs when the date or the
\* rooms array (a dependency of loadBookings) changes.
EffectLoadBookingsOfMountDate(rs, d) ==
  BookingsFetch("loadBookings", rs, InitialDate)
EffectLoadBookings(rs, d) == BookingsFetch("loadBookings", rs, d)

NoTrip == [n |-> 0, room |-> 0, stale |-> FALSE]

\* -------------------------------------------------------------------- Init
Init ==
  /\ trip = NoTrip
  /\ properties = << >>
  /\ selectedProperty = 0
  /\ selectedDate = InitialDate
  /\ rooms = << >>
  /\ bookings = << >>
  /\ loading = TRUE
  /\ error = FALSE
  /\ isOnline \in BOOLEAN
  /\ autoRefresh = TRUE
  /\ notice = "none"
  /\ handlerSelProp = 0
  /\ tasks = << LoadDataTask(0) >>
  /\ dbBookings = {}
  /\ dbNextId = 1

\* ------------------------------------------------------ fetch continuations
\* loadData resumes after `await supabase.from('properties')...`.
PropertiesResponse(i, ok) ==
  /\ i \in DOMAIN tasks
  /\ tasks[i].phase = "properties"
  /\ LET t == tasks[i]
         data == RemoteProperties
         id == IF t.sel + 1 \in DOMAIN data THEN data[t.sel + 1].id ELSE data[1].id
     IN IF ok
        THEN /\ properties' = data
             /\ tasks' = RemoveAt(tasks, i)
                           \o (IF Len(data) > 0
                               THEN << [t EXCEPT !.phase = "rooms", !.prop = id] >>
                               ELSE << >>)
                           \o EffectLoadRooms(data, selectedProperty)
             /\ loading' = (IF Len(data) > 0 THEN loading ELSE FALSE)
             /\ UNCHANGED error
        ELSE /\ error' = TRUE
             /\ loading' = FALSE
             /\ tasks' = RemoveAt(tasks, i)
             /\ UNCHANGED properties
  /\ UNCHANGED << selectedProperty, selectedDate, rooms, bookings, isOnline,
                  autoRefresh, notice, handlerSelProp, dbBookings, dbNextId >>

\* loadRooms resumes after `await supabase.from('rooms')...`; called from
\* loadData (kind "loadData") or from the effect (kind "loadRooms").  Its
\* loadBookings is the one of the first render: selectedDate = InitialDate.
RoomsResponse(i, ok) ==
  /\ i \in DOMAIN tasks
  /\ tasks[i].phase = "rooms"
  /\ LET t == tasks[i]
         data == SelectRooms(t.prop)
         own == IF Len(data) > 0
                THEN << [t EXCEPT !.phase = "bookings",
                                  !.data = SelectBookings(RoomIdsOf(data), InitialDate),
                                  !.date = InitialDate, !.rms = data] >>
                ELSE << >>
     IN IF ok
        THEN /\ rooms' = data
             /\ tasks' = RemoveAt(tasks, i) \o own
                           \o EffectLoadBookings(data, selectedDate)
             /\ loading' = (IF t.kind = "loadData" /\ own = << >> THEN FALSE ELSE loading)
        ELSE /\ tasks' = RemoveAt(tasks, i)
             /\ loading' = (IF t.kind = "loadData" THEN FALSE ELSE loading)
             /\ UNCHANGED rooms
  /\ UNCHANGED << properties, selectedProperty, selectedDate, bookings, error,
                  isOnline, autoRefresh, notice, handlerSelProp, dbBookings,
                  dbNextId >>

\* if (error) throw error; setBookings(data || []);
LoadedBookingsNoThrow(t, ok) == IF ok THEN t.data ELSE << >>
LoadedBookingsForSelectedDate(t, ok) ==
  IF ok /\ t.date = selectedDate THEN t.data ELSE bookings
LoadedBookings(t, ok) == IF ok THEN t.data ELSE bookings

\* loadBookings resumes after `await supabase.from('bookings')...`.
BookingsResponse(i, ok) ==
  /\ i \in DOMAIN tasks
  /\ tasks[i].phase = "bookings"
  /\ LET t == tasks[i]
     IN /\ bookings' = LoadedBookings(t, ok)
        /\ loading' = (IF t.kind = "loadData" THEN FALSE ELSE loading)
        /\ tasks' = RemoveAt(tasks, i)
  /\ UNCHANGED << properties, selectedProperty, selectedDate, rooms, error,
                  isOnline, autoRefresh, notice, handlerSelProp, dbBookings,
                  dbNextId >>

\* ------------------------------------------------------------ user actions
\* <select onChange={(e) => setSelectedProperty(Number(e.target.value))}>
SelectProperty(p) ==
  /\ MainView
  /\ p \in 0 .. (Len(properties) - 1)
  /\ p # selectedProperty
  /\ selectedProperty' = p
  /\ tasks' = tasks \o EffectLoadRooms(properties, p)
  /\ UNCHANGED << properties, selectedDate, rooms, bookings, loading, error,
                  isOnline, autoRefresh, notice, handlerSelProp, dbBookings,
                  dbNextId >>

\* <input type="date" onChange={(e) => setSelectedDate(e.target.value)}>
SelectDate(d) ==
  /\ MainView
  /\ d \in Dates
  /\ d # selectedDate
  /\ selectedDate' = d
  /\ tasks' = tasks \o EffectLoadBookings(rooms, d)
  /\ UNCHANGED << properties, selectedProperty, rooms, bookings, loading,
                  error, isOnline, autoRefresh, notice, handlerSelProp,
                  dbBookings, dbNextId >>

\* manualRefresh (the button is disabled while loading) and the Retry
\* button of the error screen: the loadData of the current render.
ManualRefresh ==
  /\ \/ MainView /\ ~loading
     \/ ErrorScreen
  /\ loading' = TRUE
  /\ error' = FALSE
  /\ tasks' = Append(tasks, LoadDataTask(selectedProperty))
  /\ UNCHANGED << properties, selectedProperty, selectedDate, rooms, bookings,
                  isOnline, autoRefresh, notice, handlerSelProp, dbBookings,
                  dbNextId >>

\* ------------------------------------------------------------------ toggle
\* if (!isOnline) { alert(...); return; }
OfflineGuardMissing == FALSE
OfflineOrBusyGuard ==
  \/ ~isOnline
  \/ \E i \in DOMAIN tasks :
        tasks[i].kind = "toggle" /\ tasks[i].phase \in {"delete", "insert"}
OfflineGuard == ~isOnline

\* setBookings(prev => [...prev, ...data])
ReplaceWithReturned(prev, data) == data
AppendReturned(prev, data) == prev \o data

\* setBookings(prev => prev.filter(b => b.id !== existingBooking.id))
KeepDeleted(prev, bid) == prev
ClearOnDelete(prev, bid) == << >>
RemoveDeleted(prev, bid) == SelectSeq(prev, LAMBDA b : b.id # bid)

\* setTimeout(() => { loadBookings(); }, 1000), reached when nothing threw
FollowUpAfterInsertOnly(t) ==
  IF t.phase = "insert" THEN << [t EXCEPT !.phase = "timer"] >> ELSE << >>
FollowUp(t) == << [t EXCEPT !.phase = "timer"] >>

\* catch: alert(...); loadBookings() of the render of the click
NoRefetchAfterFailure(t) == << >>
RefetchAfterFailure(t) == BookingsFetch("toggle", t.rms, t.date)

NewBooking(roomId, d) ==
  [id |-> dbNextId, room_id |-> roomId, booking_date |-> d, is_booked |-> TRUE]

\* toggleRoomBooking(roomId) up to its await: a room card of the rendered
\* list is clicked (pointerEvents: none while loading).  ok is the outcome
\* of the remote call, which the remote store decides on receipt.
toggleRoomBooking(roomId, ok) ==
  /\ MainView
  /\ ~loading
  /\ roomId \in RoomIdsOf(rooms)
  /\ IF OfflineGuard
     THEN /\ notice' = "offline"
          /\ UNCHANGED << loading, tasks, dbBookings, dbNextId >>
     ELSE LET existingBooking == Find(bookings, roomId)
              t == [Task("toggle", "insert") EXCEPT
                      !.ok = ok, !.room = roomId, !.date = selectedDate,
                      !.rms = rooms]
          IN /\ loading' = TRUE
             /\ UNCHANGED notice
             /\ IF existingBooking.id # 0
                THEN /\ tasks' = Append(tasks, [t EXCEPT !.phase = "delete",
                                                        !.bid = existingBooking.id])
                     /\ dbBookings' = (IF ok
                                       THEN {b \in dbBookings : b.id # existingBooking.id}
                                       ELSE dbBookings)
                     /\ UNCHANGED dbNextId
                ELSE /\ dbNextId <= MaxBookingId
                     /\ tasks' = Append(tasks,
                           [t EXCEPT !.data = (IF ok
                                               THEN << NewBooking(roomId, selectedDate) >>
                                               ELSE << >>)])
                     /\ dbBookings' = (IF ok
                                       THEN dbBookings \cup {NewBooking(roomId, selectedDate)}
                                       ELSE dbBookings)
                     /\ dbNextId' = (IF ok THEN dbNextId + 1 ELSE dbNextId)
  /\ UNCHANGED << properties, selectedProperty, selectedDate, rooms, bookings,
                  error, isOnline, autoRefresh, handlerSelProp >>

\* toggleRoomBooking resumes after the awaited delete or insert.
ToggleResponse(i) ==
  /\ i \in DOMAIN tasks
  /\ tasks[i].kind = "toggle"
  /\ tasks[i].phase \in {"delete", "insert"}
  /\ LET t == tasks[i]
     IN IF t.ok
        THEN /\ bookings' = (IF t.phase = "delete"
                             THEN RemoveDeleted(bookings, t.bid)
                             ELSE AppendReturned(bookings, t.data))
             /\ tasks' = RemoveAt(tasks, i) \o FollowUp(t)
             /\ UNCHANGED notice
        ELSE /\ notice' = "toggle_error"
             /\ tasks' = RemoveAt(tasks, i) \o RefetchAfterFailure(t)
             /\ UNCHANGED bookings
  /\ loading' = FALSE
  /\ UNCHANGED << properties, selectedProperty, selectedDate, rooms, error,
                  isOnline, autoRefresh, handlerSelProp, dbBookings, dbNextId >>

\* setTimeout(() => { loadBookings(); }, 1000) fires: the loadBookings of
\* the render in which the room was clicked.
ToggleTimerFire(i) ==
  /\ i \in DOMAIN tasks
  /\ tasks[i].kind = "toggle"
  /\ tasks[i].phase = "timer"
  /\ tasks' = RemoveAt(tasks, i)
                \o BookingsFetch("toggle", tasks[i].rms, tasks[i].date)
  /\ UNCHANGED << local, dbBookings, dbNextId >>

\* ------------------------------------------------------- environment events
\* setInterval(() => { loadBookings(); ... }, 30000), armed while
\* autoRefresh && isOnline, re-armed with the current loadBookings.
TimerTickUnguarded ==
  /\ tasks' = tasks \o BookingsFetch("interval", rooms, selectedDate)
  /\ UNCHANGED << local, dbBookings, dbNextId >>
TimerTick ==
  /\ autoRefresh
  /\ isOnline
  /\ tasks' = tasks \o BookingsFetch("interval", rooms, selectedDate)
  /\ UNCHANGED << local, dbBookings, dbNextId >>

\* handleOnline, registered by the first render (deps [autoRefresh]): its
\* loadData closes over selectedProperty = 0.
handleOnline ==
  /\ ~isOnline
  /\ isOnline' = TRUE
  /\ handlerSelProp' = selectedProperty
  /\ IF autoRefresh
     THEN /\ loading' = TRUE
          /\ error' = FALSE
          /\ tasks' = Append(tasks, LoadDataTask(0))
     ELSE UNCHANGED << loading, error, tasks >>
  /\ UNCHANGED << properties, selectedProperty, selectedDate, rooms, bookings,
                  autoRefresh, notice, dbBookings, dbNextId >>

handleOffline ==
  /\ isOnline
  /\ isOnline' = FALSE
  /\ handlerSelProp' = selectedProperty
  /\ UNCHANGED << properties, selectedProperty, selectedDate, rooms, bookings,
                  loading, error, autoRefresh, notice, tasks, dbBookings,
                  dbNextId >>

\* handleVisibilityChange, re-registered when isOnline or autoRefresh change.
handleVisibilityChange(hidden) ==
  /\ ~hidden /\ isOnline /\ autoRefresh
  /\ loading' = TRUE
  /\ error' = FALSE
  /\ tasks' = Append(tasks, LoadDataTask(handlerSelProp))
  /\ UNCHANGED << properties, selectedProperty, selectedDate, rooms, bookings,
                  isOnline, autoRefresh, notice, handlerSelProp, dbBookings,
                  dbNextId >>

\* handleFocus: setTimeout(() => loadData(), 500)
handleFocus ==
  /\ isOnline /\ autoRefresh
  /\ tasks' = Append(tasks, [Task("focus", "timer") EXCEPT !.sel = handlerSelProp])
  /\ UNCHANGED << local, dbBookings, dbNextId >>

FocusTimerFire(i) ==
  /\ i \in DOMAIN tasks
  /\ tasks[i].kind = "focus"
  /\ tasks[i].phase = "timer"
  /\ loading' = TRUE
  /\ error' = FALSE
  /\ tasks' = RemoveAt(tasks, i) \o << LoadDataTask(tasks[i].sel) >>
  /\ UNCHANGED << properties, selectedProperty, selectedDate, rooms, bookings,
                  isOnline, autoRefresh, notice, handlerSelProp, dbBookings,
                  dbNextId >>

\* -------------------------------------------------------------------- Next
\* An event of the user or the environment that starts something new is
\* admitted while fewer than n continuations and timers are in flight.
Admit(n) == tasks' = tasks \/ Len(tasks) < n

Admitted == Admit(MaxTasks) /\ UNCHANGED trip

Next ==
  \* what the user and the environment do
  \/ \E p \in 0 .. (Len(RemoteProperties) - 1) : SelectProperty(p) /\ Admitted
  \/ \E d \in Dates : SelectDate(d) /\ Admitted
  \/ ManualRefresh /\ Admitted
  \/ \E r \in AllRoomIds, ok \in BOOLEAN : toggleRoomBooking(r, ok) /\ Admitted
  \/ TimerTick /\ Admitted
  \/ handleOnline /\ Admitted
  \/ handleOffline /\ Admitted
  \/ \E hidden \in BOOLEAN : handleVisibilityChange(hidden) /\ Admitted
  \/ handleFocus /\ Admitted
  \* what the event loop resumes: awaited responses and timers
  \/ \E i \in DOMAIN tasks, ok \in BOOLEAN : PropertiesResponse(i, ok) /\ UNCHANGED trip
  \/ \E i \in DOMAIN tasks, ok \in BOOLEAN : RoomsResponse(i, ok) /\ UNCHANGED trip
  \/ \E i \in DOMAIN tasks, ok \in BOOLEAN : BookingsResponse(i, ok) /\ UNCHANGED trip
  \/ \E i \in DOMAIN tasks : ToggleResponse(i) /\ UNCHANGED trip
  \/ \E i \in DOMAIN tasks : ToggleTimerFire(i) /\ UNCHANGED trip
  \/ \E i \in DOMAIN tasks : FocusTimerFire(i) /\ UNCHANGED trip

Spec == Init /\ [][Next]_vars


\* ------------------------------------------------ runs in which nothing fails
\* Every request succeeds: the runs the claims about successful fetches and
\* toggles speak of.
NextOK ==
  \/ \E p \in 0 .. (Len(RemoteProperties) - 1) : SelectProperty(p) /\ Admitted
  \/ \E d \in Dates : SelectDate(d) /\ Admitted
  \/ ManualRefresh /\ Admitted
  \/ \E r \in AllRoomIds : toggleRoomBooking(r, TRUE) /\ Admitted
  \/ TimerTick /\ Admitted
  \/ handleOnline /\ Admitted
  \/ handleOffline /\ Admitted
  \/ \E hidden \in BOOLEAN : handleVisibilityChange(hidden) /\ Admitted
  \/ handleFocus /\ Admitted
  \/ \E i \in DOMAIN tasks : PropertiesResponse(i, TRUE) /\ UNCHANGED trip
  \/ \E i \in DOMAIN tasks : RoomsResponse(i, TRUE) /\ UNCHANGED trip
  \/ \E i \in DOMAIN tasks : BookingsResponse(i, TRUE) /\ UNCHANGED trip
  \/ \E i \in DOMAIN tasks : ToggleResponse(i) /\ UNCHANGED trip
  \/ \E i \in DOMAIN tasks : ToggleTimerFire(i) /\ UNCHANGED trip
  \/ \E i \in DOMAIN tasks : FocusTimerFire(i) /\ UNCHANGED trip

SpecOK == Init /\ [][NextOK]_vars

\* ------------------------------------------------------- toggle round trips
\* The loaded, idle state a successful mount ends in (nothing booked yet),
\* from which rooms are toggled while the interval keeps re-fetching.  One
\* more operation may overlap than in Spec.  `trip` observes one round trip:
\*   n = 1  a room with no booking, locally or remotely, has been toggled
\*   n = 2  that toggle has resumed          n = 3  the room is toggled again
\*   n = 4  the second toggle has resumed    n = 5  the room is toggled on
\* and stale records that a bookings response landed during the trip whose
\* rows are not what the remote table holds, as it lands, for the rooms and
\* the date selected.
TripInit ==
  /\ properties = RemoteProperties
  /\ selectedProperty = 0
  /\ selectedDate = InitialDate
  /\ rooms = SelectRooms(RemoteProperties[1].id)
  /\ bookings = << >>
  /\ loading = FALSE
  /\ error = FALSE
  /\ isOnline = TRUE
  /\ autoRefresh = TRUE
  /\ notice = "none"
  /\ handlerSelProp = 0
  /\ tasks = << >>
  /\ dbBookings = {}
  /\ dbNextId = 1
  /\ trip = NoTrip

NoRemoteBooking(roomId, d) ==
  ~\E b \in dbBookings : b.room_id = roomId /\ b.booking_date = d

TripAfterToggle(r, start) ==
  IF trip.n = 0 /\ start /\ ~HasEntry(r) /\ NoRemoteBooking(r, selectedDate)
  THEN [n |-> 1, room |-> r, stale |-> FALSE]
  ELSE IF trip.room = r /\ trip.n \in {2, 4}
  THEN [trip EXCEPT !.n = trip.n + 1]
  ELSE trip

TripAfterResponse(t) ==
  IF trip.room = t.room /\ trip.n \in {1, 3}
  THEN [trip EXCEPT !.n = trip.n + 1]
  ELSE trip

Stale(t) == t.data # SelectBookings(RoomIdsOf(rooms), selectedDate)

TripAfterBookings(t) ==
  IF trip.n \in 1 .. 4 /\ Stale(t) THEN [trip EXCEPT !.stale = TRUE] ELSE trip

TripNext ==
  \/ \E r \in AllRoomIds, start \in BOOLEAN :
        /\ toggleRoomBooking(r, TRUE)
        /\ Admit(MaxTasks + 1)
        /\ trip' = TripAfterToggle(r, start)
  \/ \E i \in DOMAIN tasks :
        ToggleResponse(i) /\ trip' = TripAfterResponse(tasks[i])
  \/ \E i \in DOMAIN tasks : ToggleTimerFire(i) /\ UNCHANGED trip
  \/ TimerTick /\ Admit(MaxTasks + 1) /\ UNCHANGED trip
  \/ \E i \in DOMAIN tasks :
        BookingsResponse(i, TRUE) /\ trip' = TripAfterBookings(tasks[i])

SpecTrip == TripInit /\ [][TripNext]_vars

\* ------------------------------------------------ overlapping operations
\* From the loaded, idle state: rooms are toggled while the app is brought
\* to the foreground, which re-fetches everything; one more operation may
\* overlap than in Spec.  The finally of whichever operation resumes first
\* resets the loading flag, also while another one is still in flight.
OverlapNext ==
  \/ \E r \in AllRoomIds :
        toggleRoomBooking(r, TRUE) /\ Admit(MaxTasks + 1) /\ UNCHANGED trip
  \/ \E hidden \in BOOLEAN :
        handleVisibilityChange(hidden) /\ Admit(MaxTasks + 1) /\ UNCHANGED trip
  \/ \E i \in DOMAIN tasks, ok \in BOOLEAN : PropertiesResponse(i, ok) /\ UNCHANGED trip
  \/ \E i \in DOMAIN tasks : RoomsResponse(i, TRUE) /\ UNCHANGED trip
  \/ \E i \in DOMAIN tasks : BookingsResponse(i, TRUE) /\ UNCHANGED trip
  \/ \E i \in DOMAIN tasks : ToggleResponse(i) /\ UNCHANGED trip
  \/ \E i \in DOMAIN tasks : ToggleTimerFire(i) /\ UNCHANGED trip

SpecOverlap == TripInit /\ [][OverlapNext]_vars

\* ------------------------------------------------------------------ claims
\* C1: while the client is offline, a toggle of any room issues no remote
\* insert, delete or fetch and leaves the property list, the room list, the
\* booking list, the loading flag and the error state as they were; all it
\* does is raise the offline notice.
C1_OfflineToggleOnlyNotifies ==
  [][\A r \in AllRoomIds :
       (~isOnline /\ \E ok \in BOOLEAN : toggleRoomBooking(r, ok)) =>
          /\ UNCHANGED << properties, rooms, bookings, loading, error >>
          /\ UNCHANGED << tasks, dbBookings, dbNextId >>
          /\ notice' = "offline"]_vars

\* An offline toggle has happened on a loaded room list.
C1_Witness ==
  /\ notice = "offline"
  /\ ~isOnline
  /\ Len(rooms) > 0
  /\ tasks = << >>

\* C2: online and with no local entry for room r, a successful toggle of r
\* inserts exactly one remote row {room_id: r, booking_date: the selected
\* date, is_booked: true}; when its response resumes the toggle with the
\* list still holding no entry for r, the returned row is appended, r is
\* booked and the available count drops by exactly one.
C2_InsertToggle ==
  [][/\ \A r \in AllRoomIds :
          (isOnline /\ ~HasEntry(r) /\ toggleRoomBooking(r, TRUE)) =>
             \E row \in dbBookings' :
                /\ row \notin dbBookings
                /\ dbBookings' = dbBookings \cup {row}
                /\ row.room_id = r
                /\ row.booking_date = selectedDate
                /\ row.is_booked
                /\ Len(tasks') = Len(tasks) + 1
                /\ tasks'[Len(tasks')].phase = "insert"
                /\ tasks'[Len(tasks')].data = << row >>
     /\ \A i \in DOMAIN tasks :
          (/\ ToggleResponse(i)
           /\ tasks[i].phase = "insert"
           /\ tasks[i].ok
           /\ ~HasEntry(tasks[i].room)
           /\ tasks[i].room \in RoomIdsOf(rooms)) =>
             /\ bookings' = bookings \o tasks[i].data
             /\ \E r \in AllRoomIds : r = tasks[i].room /\ isRoomBooked(r)'
             /\ getAvailableRooms' = getAvailableRooms - 1]_vars

\* A successful insert toggle has resumed: its row is the second entry of
\* the list, the room is booked and no room is available any more.
C2_Witness ==
  \E i \in DOMAIN tasks :
     /\ tasks[i].kind = "toggle"
     /\ tasks[i].phase = "timer"
     /\ tasks[i].bid = 0
     /\ Len(bookings) = 2
     /\ << bookings[2] >> = tasks[i].data
     /\ isRoomBooked(tasks[i].room)
     /\ getAvailableRooms = 0
     /\ Len(rooms) = 2

\* bookedCount of the claim: the rooms of the loaded list that are booked.
bookedCount == Len(SelectSeq(rooms, LAMBDA room : isRoomBooked(room.id)))

\* C4: in every reachable state availableCount() + bookedCount() equals
\* totalCount(), also when the booking list holds entries for rooms outside
\* the room list (or more entries than there are rooms).
C4_CountsAddUp == getAvailableRooms + bookedCount = getTotalRooms

\* A loaded room list with one room booked, one available, and a booking
\* list that is longer than the booked rooms it accounts for.
C4_Witness ==
  /\ Len(rooms) = 2
  /\ getAvailableRooms = 1
  /\ bookedCount = 1
  /\ Len(bookings) >= 1

\* Bookings present although the room list is empty.
C4_WitnessOutside ==
  /\ Len(rooms) = 0
  /\ Len(bookings) > 0

\* C5: in every reachable state and for every room id r, isBooked(r) holds
\* exactly when the local booking list has an entry whose room_id is r,
\* whatever the selected date, the room list or the remote table are.
C5_BookedIffEntry ==
  \A r \in AllRoomIds \cup {0} : isRoomBooked(r) <=> HasEntry(r)

\* A room is booked by an entry of another date than the selected one, and
\* another room is not booked.
C5_Witness ==
  /\ \E j \in DOMAIN bookings : bookings[j].booking_date # selectedDate
  /\ \E r \in AllRoomIds : isRoomBooked(r)
  /\ \E r \in AllRoomIds : ~isRoomBooked(r)

\* C7: a failed fetch changes none of the cached data: a failed properties
\* fetch leaves properties, rooms and bookings as they were, a failed rooms
\* fetch leaves rooms and bookings, a failed bookings fetch leaves bookings.
C7_FailedFetchKeepsCache ==
  [][\A i \in DOMAIN tasks :
       /\ PropertiesResponse(i, FALSE) => UNCHANGED << properties, rooms, bookings >>
       /\ RoomsResponse(i, FALSE) => UNCHANGED << rooms, bookings >>
       /\ BookingsResponse(i, FALSE) => UNCHANGED bookings]_vars

\* A properties fetch has failed (only that sets the error) and the loaded
\* properties, rooms and bookings are still there.
C7_Witness ==
  /\ error
  /\ Len(properties) > 0
  /\ Len(rooms) > 0
  /\ Len(bookings) > 0
  /\ tasks = << >>

\* C8: every fetch failure, of the properties, the rooms or the bookings
\* fetch, sets the user-visible error state.
C8_EveryFailureSetsError ==
  [][\A i \in DOMAIN tasks :
       (\/ PropertiesResponse(i, FALSE)
        \/ RoomsResponse(i, FALSE)
        \/ BookingsResponse(i, FALSE)) => error']_vars

\* C9: when the remote delete or insert of a toggle fails, the toggle adds
\* or removes no entry of the local booking list, raises the alert and
\* dispatches a bookings re-fetch (for the rooms and the date of the click).
C9_FailedToggle ==
  [][\A i \in DOMAIN tasks :
       (ToggleResponse(i) /\ ~tasks[i].ok) =>
          /\ bookings' = bookings
          /\ notice' = "toggle_error"
          /\ Len(tasks') = Len(tasks)
          /\ tasks'[Len(tasks')].phase = "bookings"
          /\ tasks'[Len(tasks')].rms = tasks[i].rms
          /\ tasks'[Len(tasks')].date = tasks[i].date]_vars

\* A toggle has failed: the alert is up and its re-fetch is in flight.
C9_Witness ==
  /\ notice = "toggle_error"
  /\ ~loading
  /\ \E i \in DOMAIN tasks : tasks[i].kind = "toggle" /\ tasks[i].phase = "bookings"

\* C10 as stated: every toggle that passed the offline guard, whatever its
\* branch and whether its remote call succeeded or failed, has the delayed
\* follow-up re-fetch scheduled when it resumes.
C10_AlwaysDelayedFollowUp ==
  [][\A i \in DOMAIN tasks :
       ToggleResponse(i) =>
          /\ Len(tasks') = Len(tasks)
          /\ tasks'[Len(tasks')].kind = "toggle"
          /\ tasks'[Len(tasks')].phase = "timer"]_vars

\* C10 amended: a toggle that passed the offline guard and whose remote call
\* succeeded, in the delete and in the insert branch alike, schedules the
\* delayed follow-up, and the timer's firing dispatches a bookings fetch; a
\* toggle whose remote call failed schedules no timer and dispatches the
\* re-fetch at once.
C10_DelayedFollowUpOnSuccess ==
  [][\A i \in DOMAIN tasks :
       /\ ToggleResponse(i) =>
            /\ Len(tasks') = Len(tasks)
            /\ tasks'[Len(tasks')].kind = "toggle"
            /\ tasks'[Len(tasks')].rms = tasks[i].rms
            /\ tasks'[Len(tasks')].date = tasks[i].date
            /\ tasks'[Len(tasks')].phase = (IF tasks[i].ok THEN "timer" ELSE "bookings")
       /\ ToggleTimerFire(i) =>
            /\ Len(tasks') = Len(tasks)
            /\ tasks'[Len(tasks')].phase = "bookings"
            /\ tasks'[Len(tasks')].rms = tasks[i].rms
            /\ tasks'[Len(tasks')].date = tasks[i].date]_vars

\* The follow-up of a successful delete is pending.
C10_Witness ==
  \E i \in DOMAIN tasks :
     /\ tasks[i].kind = "toggle"
     /\ tasks[i].phase = "timer"
     /\ tasks[i].bid # 0
     /\ ~loading

\* The idle loaded state of TripInit is one a mount reaches.
TripInitReached ==
  /\ properties = RemoteProperties /\ selectedProperty = 0
  /\ selectedDate = InitialDate /\ rooms = SelectRooms(RemoteProperties[1].id)
  /\ bookings = << >> /\ ~loading /\ ~error /\ isOnline /\ notice = "none"
  /\ handlerSelProp = 0 /\ tasks = << >> /\ dbBookings = {} /\ dbNextId = 1

\* C3 as stated: once a room that had no booking has been toggled and then
\* toggled again, both toggles having succeeded and nobody else having
\* written to the remote table, no booking of the room is left in the local
\* list nor, for the selected date, in the remote table (read here in the
\* settled state, when nothing is in flight any more).
C3_RoundTrip ==
  (trip.n = 4 /\ tasks = << >>) =>
     /\ ~HasEntry(trip.room)
     /\ NoRemoteBooking(trip.room, selectedDate)

\* C3 amended: the same, at any time after the second toggle has resumed,
\* provided every bookings response that landed during the round trip
\* carried the rows the remote table held, as it landed, for the rooms and
\* the date selected (none was overtaken by a remote call of the toggles).
C3_RoundTripWithoutStale ==
  (trip.n = 4 /\ ~trip.stale) =>
     /\ ~HasEntry(trip.room)
     /\ NoRemoteBooking(trip.room, selectedDate)

\* A round trip has completed with no stale response, while a re-fetch
\* overlapped it.
C3_Witness ==
  /\ trip.n = 4
  /\ ~trip.stale
  /\ dbNextId = 2
  /\ \E i \in DOMAIN tasks : tasks[i].kind = "interval"

\* C6: once the selected property has been changed to another one and every
\* fetch has completed successfully, the local booking list holds only
\* bookings of rooms of the current room list.
C6_BookingsOfCurrentRoomsOnly ==
  (selectedProperty # 0 /\ tasks = << >>) =>
     \A j \in DOMAIN bookings : bookings[j].room_id \in RoomIdsOf(rooms)

\* C11: a toggle writes the local booking list only once the remote store
\* has confirmed: the step that invokes it (and sends the delete or insert)
\* leaves the list as it is, nothing of the toggle runs before its response
\* resumes it, and a confirmed delete removes exactly the entries that carry
\* the deleted booking's id.
C11_WriteAfterConfirmation ==
  [][/\ \A r \in AllRoomIds, ok \in BOOLEAN :
          toggleRoomBooking(r, ok) => UNCHANGED bookings
     /\ \A i \in DOMAIN tasks :
          (ToggleResponse(i) /\ tasks[i].phase = "delete" /\ tasks[i].ok) =>
             /\ Len(bookings') <= Len(bookings)
             /\ \A b \in {bookings[j] : j \in DOMAIN bookings} :
                   (b.id # tasks[i].bid) <=>
                      \E j \in DOMAIN bookings' : bookings'[j] = b
             /\ \A j \in DOMAIN bookings' :
                   \E k \in DOMAIN bookings : bookings[k] = bookings'[j]]_vars

\* A confirmed delete has resumed: of two entries, the one with the deleted
\* id is gone and the other one is still there.
C11_Witness ==
  \E i \in DOMAIN tasks :
     /\ tasks[i].kind = "toggle"
     /\ tasks[i].phase = "timer"
     /\ tasks[i].bid # 0
     /\ Len(bookings) = 1
     /\ bookings[1].id # tasks[i].bid
     /\ bookings[1].room_id # tasks[i].room
     /\ dbNextId = 3

\* The bookings fetches in flight that the interval dispatched.
IntervalFetches == Len(SelectSeq(tasks, LAMBDA t : t.kind = "interval"))

\* C12: a timer-triggered bookings fetch is dispatched only in a state in
\* which the client is online and auto-refresh is enabled; in every offline
\* state the interval is disarmed, so none is dispatched until the client is
\* online again.
C12_TimerOnlyOnlineAndAutoRefresh ==
  [][(TimerTick \/ IntervalFetches' > IntervalFetches) =>
        (isOnline /\ autoRefresh)]_vars

\* The interval has dispatched a fetch for the loaded rooms, and the client
\* has gone offline since: nothing more is dispatched from here.
C12_Witness ==
  /\ ~isOnline
  /\ \E i \in DOMAIN tasks :
        /\ tasks[i].kind = "interval"
        /\ tasks[i].phase = "bookings"
        /\ tasks[i].rms = rooms

\* C13: no full re-fetch caused by a visibility-restored or a focus-gained
\* event is dispatched in a state in which the client is offline or
\* auto-refresh is disabled, the fetch of the focus path, dispatched when
\* its fixed delay has elapsed, included.
C13_NoRefetchWhileOffline ==
  [][/\ \A hidden \in BOOLEAN :
          handleVisibilityChange(hidden) => (isOnline /\ autoRefresh)
     /\ \A i \in DOMAIN tasks :
          FocusTimerFire(i) => (isOnline /\ autoRefresh)]_vars

\* C14: bookings responses are applied in the order they arrive, with no
\* fencing.  Of two bookings fetches in flight, when the one dispatched
\* later resolves first the list becomes its rows and the earlier fetch
\* stays in flight; when the earlier one then resolves, as any response
\* does whatever was dispatched or has landed since, the list becomes the
\* rows of that earlier, superseded response.
C14_LastResponseWins ==
  [][/\ \A i \in DOMAIN tasks, j \in DOMAIN tasks :
          (/\ i < j
           /\ tasks[i].phase = "bookings"
           /\ BookingsResponse(j, TRUE)) =>
             /\ bookings' = tasks[j].data
             /\ tasks'[i] = tasks[i]
     /\ \A i \in DOMAIN tasks :
          BookingsResponse(i, TRUE) => bookings' = tasks[i].data]_vars

\* With every request succeeding, the fetch loadRooms dispatched (for the
\* date of the mount) has landed after the one the effect dispatched after
\* it (for the selected date): the list is the superseded response and not
\* what the remote table holds for the selected date.
C14_Witness ==
  /\ tasks = << >>
  /\ Len(rooms) > 0
  /\ selectedDate # InitialDate
  /\ bookings = SelectBookings(RoomIdsOf(rooms), InitialDate)
  /\ bookings # SelectBookings(RoomIdsOf(rooms), selectedDate)

\* The remote rows of a room for a date.
RemoteRowsOf(roomId, d) ==
  {b \in dbBookings : b.room_id = roomId /\ b.booking_date = d}

\* The inserts for a room in flight.
InsertsInFlight(roomId) ==
  Len(SelectSeq(tasks, LAMBDA t : /\ t.kind = "toggle" /\ t.phase = "insert"
                                   /\ t.room = roomId))

\* C15: nothing locks a room and no idempotency token is sent: a toggle of
\* an unbooked room r invoked while an earlier insert for r and the selected
\* date is still in flight (its row stored remotely, not yet in the local
\* list) issues a second insert, and the remote table then holds two rows
\* for (r, selected date); one row per (room, date) is no invariant.
C15_DoubleInsert ==
  [][\A r \in AllRoomIds, i \in DOMAIN tasks :
       (/\ tasks[i].kind = "toggle"
        /\ tasks[i].phase = "insert"
        /\ tasks[i].room = r
        /\ tasks[i].date = selectedDate
        /\ tasks[i].ok
        /\ \E j \in DOMAIN tasks[i].data : tasks[i].data[j] \in dbBookings
        /\ isOnline
        /\ ~HasEntry(r)
        /\ toggleRoomBooking(r, TRUE)) =>
          /\ Cardinality(RemoteRowsOf(r, selectedDate)') >= 2
          /\ InsertsInFlight(r)' = InsertsInFlight(r) + 1
          /\ dbNextId' = dbNextId + 1]_vars

\* Two inserts for the same room and date are in flight and both rows are
\* in the remote table.
C15_Witness ==
  \E i \in DOMAIN tasks, j \in DOMAIN tasks :
     /\ i < j
     /\ tasks[i].kind = "toggle" /\ tasks[i].phase = "insert"
     /\ tasks[j].kind = "toggle" /\ tasks[j].phase = "insert"
     /\ tasks[i].room = tasks[j].room
     /\ tasks[i].date = tasks[j].date
     /\ tasks[i].data # tasks[j].data
     /\ Cardinality(RemoteRowsOf(tasks[i].room, tasks[i].date)) = 2

\* C16: every change of the selected date made while the room list is not
\* empty dispatches one bookings fetch, filtered by the new date and by the
\* ids of the current room list; the room list is neither modified nor
\* fetched again (nothing else is dispatched).
C16_DateChangeFetchesBookings ==
  [][\A d \in Dates :
       (SelectDate(d) /\ Len(rooms) > 0) =>
          /\ selectedDate' = d
          /\ UNCHANGED rooms
          /\ Len(tasks') = Len(tasks) + 1
          /\ \A i \in DOMAIN tasks : tasks'[i] = tasks[i]
          /\ tasks'[Len(tasks')].phase = "bookings"
          /\ tasks'[Len(tasks')].date = d
          /\ tasks'[Len(tasks')].rms = rooms
          /\ tasks'[Len(tasks')].data =
                SortedById({b \in dbBookings :
                              /\ b.booking_date = d
                              /\ \E k \in DOMAIN rooms : rooms[k].id = b.room_id})]_vars

\* The date has been changed to one that has a booking the list does not
\* show yet; the fetch for it is in flight.
C16_Witness ==
  /\ Len(tasks) = 1
  /\ tasks[1].kind = "loadBookings"
  /\ tasks[1].date = selectedDate
  /\ selectedDate # InitialDate
  /\ tasks[1].rms = rooms
  /\ Len(rooms) > 0
  /\ tasks[1].data # << >>
  /\ bookings = << >>

\* The fetches of a kind of request in flight.
InFlight(phase) == Len(SelectSeq(tasks, LAMBDA t : t.phase = phase))

\* C17: from the mount on the fetches are ordered properties, rooms,
\* bookings.  While no properties response has arrived (the property list,
\* which only such a response writes, is empty) no rooms and no bookings
\* fetch is in flight; a rooms fetch is dispatched only by a step in which
\* a properties response arrives or after one has; a bookings fetch is
\* dispatched only by a step in which a rooms response arrives, or for a
\* room list that a rooms response has delivered (the current one, or the
\* one a toggled room was clicked in).
C17_MountOrder ==
  /\ [](Len(properties) = 0 =>
          /\ InFlight("rooms") = 0
          /\ InFlight("bookings") = 0
          /\ rooms = << >>)
  /\ [][/\ properties' # properties =>
             \E i \in DOMAIN tasks : PropertiesResponse(i, TRUE)
        /\ rooms' # rooms =>
             \E i \in DOMAIN tasks : RoomsResponse(i, TRUE)
        /\ InFlight("rooms")' > InFlight("rooms") =>
             \/ \E i \in DOMAIN tasks : PropertiesResponse(i, TRUE)
             \/ Len(properties) > 0
        /\ InFlight("bookings")' > InFlight("bookings") =>
             \/ \E i \in DOMAIN tasks : RoomsResponse(i, TRUE) /\ Len(rooms') > 0
             \/ Len(rooms) > 0
             \/ \E i \in DOMAIN tasks :
                   /\ ToggleResponse(i) \/ ToggleTimerFire(i)
                   /\ Len(tasks[i].rms) > 0
        /\ \A i \in DOMAIN tasks' :
             (tasks'[i].kind = "toggle" /\ tasks'[i] \notin {tasks[j] : j \in DOMAIN tasks}) =>
                \/ tasks'[i].rms = rooms /\ Len(rooms) > 0
                \/ \E j \in DOMAIN tasks : tasks[j].rms = tasks'[i].rms]_vars

\* The mount has gone through its three fetches in order: the properties
\* and the rooms have arrived and the bookings fetch of loadData is in
\* flight, nothing else having happened.
C17_Witness ==
  /\ Len(properties) > 0
  /\ Len(rooms) > 0
  /\ bookings = << >>
  /\ loading
  /\ dbNextId = 1
  /\ selectedDate = InitialDate
  /\ \E i \in DOMAIN tasks : tasks[i].kind = "loadData" /\ tasks[i].phase = "bookings"

\* C18: whenever no properties and no rooms fetch is in flight (every rooms
\* fetch so far having succeeded), every room of the local room list has
\* the id of the currently selected property as its property_id.
C18_RoomsOfSelectedProperty ==
  (/\ InFlight("properties") = 0
   /\ InFlight("rooms") = 0
   /\ selectedProperty + 1 \in DOMAIN properties) =>
     \A k \in DOMAIN rooms :
        rooms[k].property_id = properties[selectedProperty + 1].id

\* C19: the delete a toggle of room r issues targets only a booking row
\* whose room_id is r and whose booking_date is the date selected when the
\* toggle is invoked.
C19_DeleteTargetsSelectedDate ==
  [][\A r \in AllRoomIds, ok \in BOOLEAN :
       (/\ toggleRoomBooking(r, ok)
        /\ Len(tasks') = Len(tasks) + 1
        /\ tasks'[Len(tasks')].phase = "delete") =>
          \A b \in dbBookings :
             b.id = tasks'[Len(tasks')].bid =>
                (b.room_id = r /\ b.booking_date = selectedDate)]_vars

\* C20: every bookings fetch is filtered by the date that is selected when
\* it is dispatched, the fetch loadRooms dispatches when a rooms response
\* arrives and the delayed follow-up of a toggle included.
C20_FetchUsesSelectedDate ==
  [][\A i \in DOMAIN tasks' :
       (/\ tasks'[i].phase = "bookings"
        /\ tasks'[i] \notin {tasks[j] : j \in DOMAIN tasks}) =>
          tasks'[i].date = selectedDate']_vars

\* C22: the loading flag is true in every state in which the remote insert
\* or delete of a toggle, or a full re-fetch (loadData, up to the last
\* response it awaits), is still in flight.
C22_LoadingWhileInFlight ==
  (\E i \in DOMAIN tasks :
      \/ tasks[i].kind = "toggle" /\ tasks[i].phase \in {"delete", "insert"}
      \/ tasks[i].kind = "loadData") => loading

\* The client has come to rest: it is online with auto-refresh enabled,
\* nothing is in flight, and a tick of the interval, the only thing that
\* still happens when the user does nothing more, either dispatches nothing
\* or fetches the rows the list already holds.  Without a user action the
\* state stays as it is from here on.
AtRest ==
  /\ isOnline
  /\ autoRefresh
  /\ tasks = << >>
  /\ LET next == BookingsFetch("interval", rooms, selectedDate)
     IN \A k \in DOMAIN next : next[k].data = bookings

\* C21: with the client online, auto-refresh enabled, every fetch succeeding
\* and delivered and no further user action or external mutation, the local
\* booking list ends up, and stays, exactly the remote rows of the rooms of
\* the current room list for the selected date: read in the states in which
\* the client has come to rest, which is where such a run ends up.
C21_ListIsRemoteRowsAtRest ==
  AtRest => bookings = SelectBookings(RoomIdsOf(rooms), selectedDate)

====
